---- MODULE Spec2Model ----
(***************************************************************************)
(* Model of the budget tracker of src/budget_app.py: the four persisted    *)
(* stores (transactions.csv, categories.json, budgets.json,                *)
(* plaid_tokens.json) and the page handlers that read, change and          *)
(* overwrite them.  Every script run loads the stores from the files       *)
(* (lines 275-278), so between two handler runs the state of the program   *)
(* is the content of the files; a handler is one atomic step from file     *)
(* content to file content (single user, single process).                  *)
(*                                                                         *)
(* Amounts are integers (cents).  Dates are day numbers: pd.to_datetime    *)
(* turns every accepted spelling of a day into the same Timestamp.         *)
(* transaction ids are triples <<kind, a, b>>: the f-strings               *)
(* 'manual-{ts}' and 'csv-{ts}-{i}' are injective in (ts) and (ts, i) and  *)
(* have different prefixes; an aggregator id is <<"plaid", k, 0>>.         *)
(*                                                                         *)
(* Assumptions on the environment: the clock reads strictly later at each  *)
(* handler run than at the one before (the rows of one import may read the *)
(* same instant); a file that can be read is read back as it was written   *)
(* (SpecDamage and SpecLoad let files become unreadable, the other         *)
(* specifications do not); the aggregator's ids never start with 'manual-' *)
(* or 'csv-'.                                                              *)
(* The Add Expense amount ranges over 0 as well, although the number_input *)
(* widget has min_value 0.01, to exercise the handler's own condition.     *)
(***************************************************************************)
EXTENDS Integers, Sequences, FiniteSets, TLC

VARIABLES txFile,      \* transactions.csv: sequence of transaction records
          catFile,     \* categories.json: sequence of category names
          budgetFile,  \* budgets.json: function category -> limit
          tokenFile,   \* plaid_tokens.json ['access_tokens']: sequence of token records
          now,         \* the wall clock, in ticks of datetime.now().timestamp()
          last,        \* the observed handler run: its inputs and the message it showed
          unreadable,  \* the stores whose file cannot be read (missing or not parsable)
          fetch,       \* the fetch_transactions call in progress
          sessions     \* the script runs of the browser sessions that overlap in time

vars == <<txFile, catFile, budgetFile, tokenFile, now, last, unreadable, fetch,
          sessions>>

----------------------------------------------------------------------------
(* Bounds of the exploration *)

MaxClock == 2      \* handlers that stamp an id run while now < MaxClock
MaxStore == 2      \* records the saved table may hold
MaxRows == 2       \* rows of an uploaded CSV file
MaxResp == 2       \* transactions the aggregator reports for an account
MaxTaxonomy == 2   \* entries of an aggregator taxonomy
TicksPerDay == 4   \* clock ticks in a calendar day
PageSize == 1      \* transactions in a full page of the aggregator

----------------------------------------------------------------------------
(* Program constants *)

DEFAULT_CATEGORIES ==
    <<"Groceries", "Dining Out", "Gas/Transportation", "Utilities",
      "Entertainment", "Healthcare", "Shopping", "Housing", "Other">>

DefaultBudget == 500

Range(s) == {s[i] : i \in 1..Len(s)}

default_budgets == [c \in Range(DEFAULT_CATEGORIES) |-> DefaultBudget]

----------------------------------------------------------------------------
(* Input domains *)

Days == {1, 2}
Descriptions == {"", "Store A"}
ManualAmounts == {0, 1}
PlaidIds == {1, 2, 3, 4}
NewCategoryNames == {"", "Groceries", "Pets"}
PublicTokens == {"", "public-1"}
InstitutionNames == {"", " Chase "}
AccessTokens == {"access-1"}

----------------------------------------------------------------------------
(* Transaction records *)

Rec(d, desc, amt, cat, src, id) ==
    [date |-> d, description |-> desc, amount |-> amt,
     category |-> cat, source |-> src, transaction_id |-> id]

Abs(x) == IF x < 0 THEN -x ELSE x

Ids(df) == {df[i].transaction_id : i \in 1..Len(df)}

SeqsUpTo(S, n) == UNION {[1..k -> S] : k \in 0..n}

\* the non-decreasing sequences of up to m indices in 1..n
SortedSeqs(n, m) ==
    {f \in SeqsUpTo(1..n, m) : \A i, j \in DOMAIN f : i < j => f[i] <= f[j]}

----------------------------------------------------------------------------
(* The observed run.  A behaviour is a sequence of handler runs; `last` holds *)
(* the inputs and the message of the final run of the behaviour, and Idle     *)
(* while the runs are not observed.  Every run can be the observed one.       *)

Idle == [op |-> "none", msg |-> "none"]

Unobserved == last = Idle

Observe(run) == last' = run \/ last' = Idle

\* no fetch_transactions call is in progress
NoFetch == [pc |-> "none", transactions |-> <<>>, total |-> 0, offset |-> 0,
            raised |-> FALSE, result |-> <<>>]

\* the browser sessions whose script runs can overlap
Sessions == {1, 2}

\* no script run is in progress
NoSessions ==
    [s \in Sessions |->
        [pc |-> "idle", transactions_df |-> <<>>, overlapped |-> FALSE,
         accepted |-> {}]]

----------------------------------------------------------------------------
(* Stores: load and save *)

Stores == {"transactions", "budgets", "categories", "plaid_tokens"}

\* load_transactions: the table in the file, or the empty table when
\* read_csv or to_datetime raises
load_transactions == IF "transactions" \in unreadable THEN <<>> ELSE txFile

\* load_budgets, load_categories, load_plaid_tokens: the content of the
\* file, or the default when open or json.load raises
load_budgets == IF "budgets" \in unreadable THEN default_budgets ELSE budgetFile

\* variant: what the file held is returned although it cannot be read
load_categories_Stale == catFile

load_categories == IF "categories" \in unreadable THEN DEFAULT_CATEGORIES ELSE catFile

load_plaid_tokens == IF "plaid_tokens" \in unreadable THEN <<>> ELSE tokenFile

\* save_transactions, save_budgets, save_categories, save_plaid_tokens
\* overwrite the file: it reads back afterwards
Saved(stores) == unreadable' = unreadable \ stores

\* the columns a duplicate is decided on
TripleSubset == {"date", "description", "amount"}

IdSubset == {"transaction_id"}

\* variant: the last row of every key is kept
drop_duplicates_KeepLast(df, subset) ==
    LET Key(r) == [c \in subset |-> r[c]]
        F[i \in 0..Len(df)] ==
            IF i = 0 THEN <<>>
            ELSE IF \E j \in (i + 1)..Len(df) : Key(df[j]) = Key(df[i])
                 THEN F[i - 1]
                 ELSE Append(F[i - 1], df[i])
    IN F[Len(df)]

\* DataFrame.drop_duplicates(subset=...): keeps the first row of every key
drop_duplicates(df, subset) ==
    LET Key(r) == [c \in subset |-> r[c]]
        F[i \in 0..Len(df)] ==
            IF i = 0 THEN <<>>
            ELSE IF \E j \in 1..(i - 1) : Key(df[j]) = Key(df[i])
                 THEN F[i - 1]
                 ELSE Append(F[i - 1], df[i])
    IN F[Len(df)]

\* the option of the category selectbox that is tried on the Add Expense
\* page (the last one) and on the Import CSV page (the first one)
ExpenseCategoryChoices(categories) == {categories[Len(categories)]}

ImportCategoryChoices(categories) == {categories[1]}

----------------------------------------------------------------------------
(* Add Expense page *)

ManualId(ts) == <<"manual", ts, 0>>

\* variant: the description is not looked at
ExpenseAccepted_AmountOnly(desc, amt) == amt > 0

\* the condition under which the form is accepted
ExpenseAccepted(desc, amt) == desc # "" /\ amt > 0

\* variant: the manual entry goes through the importer's duplicate elimination
AddExpenseTable_Dedup(df, d, desc, amt, cat, ts) ==
    drop_duplicates(df \o <<Rec(d, desc, amt, cat, "Manual Entry", <<"manual", ts, 0>>)>>,
                    TripleSubset)

\* variant: the new record alone is saved
AddExpenseTable_NewOnly(df, d, desc, amt, cat, ts) ==
    <<Rec(d, desc, amt, cat, "Manual Entry", <<"manual", ts, 0>>)>>

\* the table the handler saves
AddExpenseTable(df, d, desc, amt, cat, ts) ==
    df \o <<Rec(d, desc, amt, cat, "Manual Entry", ManualId(ts))>>

AddExpense ==
    /\ Unobserved
    /\ now < MaxClock
    /\ \E d \in Days, desc \in Descriptions, amt \in ManualAmounts,
         cat \in ExpenseCategoryChoices(load_categories) :
         LET in == [op |-> "AddExpense", date |-> d, description |-> desc,
                    amount |-> amt, category |-> cat, ts |-> now]
         IN IF ExpenseAccepted(desc, amt)
            THEN /\ txFile' = AddExpenseTable(load_transactions, d, desc, amt, cat, now)
                 /\ Len(txFile') <= MaxStore
                 /\ Saved({"transactions"})
                 /\ now' = now + 1
                 /\ Observe(in @@ [msg |-> "success"])
            ELSE /\ Observe(in @@ [msg |-> "error"])
                 /\ UNCHANGED <<txFile, now, unreadable>>
    /\ UNCHANGED <<catFile, budgetFile, tokenFile, fetch, sessions>>

----------------------------------------------------------------------------
(* Import CSV page *)

CsvId(ts, i) == <<"csv", ts, i>>

\* pd.to_datetime of the date column: raises on a column it cannot parse
ToDatetimeRaises(rows) == \E i \in 1..Len(rows) : rows[i].date.format = "bad"

to_datetime(raw) == raw.day

\* variant: the sign of the amount is kept
new_transactions_Signed(rows, default_category, ts) ==
    [i \in 1..Len(rows) |->
        Rec(rows[i].date.day, rows[i].description, rows[i].amount,
            default_category, "CSV Import", <<"csv", ts, i - 1>>)]

\* the new_transactions frame built from the uploaded rows
new_transactions(rows, default_category, ts) ==
    [i \in 1..Len(rows) |->
        Rec(to_datetime(rows[i].date), rows[i].description, Abs(rows[i].amount),
            default_category, "CSV Import", CsvId(ts, i - 1))]

\* variant: the merged table is saved without duplicate elimination
ImportTable_NoDedup(df, rows, default_category, ts) ==
    df \o [i \in 1..Len(rows) |->
             Rec(rows[i].date.day, rows[i].description, Abs(rows[i].amount),
                 default_category, "CSV Import", <<"csv", ts, i - 1>>)]

\* the table the handler saves
ImportTable(df, rows, default_category, ts) ==
    drop_duplicates(df \o new_transactions(rows, default_category, ts), TripleSubset)

\* rows of uploaded files, in the order a file lists them: a refund, a zero
\* line and a purchase on day 1, a purchase on day 2
CsvRow(fmt, d, a) ==
    [date |-> [format |-> fmt, day |-> d], description |-> "Store A", amount |-> a]

CsvSampleRows(fmt) ==
    <<CsvRow(fmt, 1, -1), CsvRow(fmt, 1, 0), CsvRow(fmt, 1, 1), CsvRow(fmt, 2, 1)>>

\* the uploaded files: files of 1 to MaxRows rows with ISO dates, and files
\* of one row with a US date or a date that does not parse
CsvFiles ==
    {[i \in DOMAIN f |-> CsvSampleRows("iso")[f[i]]] :
        f \in SortedSeqs(Len(CsvSampleRows("iso")), MaxRows) \ {<<>>}}
        \cup {<<CsvRow("us", 1, 1)>>, <<CsvRow("bad", 1, 1)>>}

ImportCSV ==
    /\ Unobserved
    /\ now < MaxClock
    /\ \E rows \in CsvFiles,
          cat \in ImportCategoryChoices(load_categories) :
         LET in == [op |-> "ImportCSV", rows |-> rows, category |-> cat, ts |-> now]
         IN IF ToDatetimeRaises(rows)
            THEN /\ Observe(in @@ [msg |-> "error"])
                 /\ UNCHANGED <<txFile, now, unreadable>>
            ELSE /\ txFile' = ImportTable(load_transactions, rows, cat, now)
                 /\ Len(txFile') <= MaxStore
                 /\ Saved({"transactions"})
                 /\ now' = now + 1
                 /\ Observe(in @@ [msg |-> "success"])
    /\ UNCHANGED <<catFile, budgetFile, tokenFile, fetch, sessions>>

----------------------------------------------------------------------------
(* Aggregator sync *)

PlaidId(k) == <<"plaid", k, 0>>

\* the 'category' taxonomy of an aggregator transaction; absent when the
\* transaction has no such key (txn.get('category') is None)
Taxonomy(list) == [absent |-> FALSE, list |-> list]

NoTaxonomy == [absent |-> TRUE, list |-> <<>>]

category_mapping ==
    [k \in {"Food and Drink", "Groceries", "Transportation", "Recreation",
            "Healthcare", "Shopping", "Travel", "Payment", "Transfer"} |->
        CASE k = "Food and Drink" -> "Dining Out"
          [] k = "Groceries" -> "Groceries"
          [] k = "Transportation" -> "Gas/Transportation"
          [] k = "Recreation" -> "Entertainment"
          [] k = "Healthcare" -> "Healthcare"
          [] k = "Shopping" -> "Shopping"
          [] k = "Travel" -> "Entertainment"
          [] k = "Payment" -> "Other"
          [] k = "Transfer" -> "Other"]

\* variant: the most specific (last) entry of the taxonomy is looked up
categorize_transaction_Last(plaid_category) ==
    IF ~plaid_category.absent /\ Len(plaid_category.list) > 0
    THEN LET primary_category == plaid_category.list[Len(plaid_category.list)]
         IN IF primary_category \in DOMAIN category_mapping
            THEN category_mapping[primary_category]
            ELSE "Other"
    ELSE "Other"

categorize_transaction(plaid_category) ==
    IF ~plaid_category.absent /\ Len(plaid_category.list) > 0
    THEN LET primary_category == plaid_category.list[1]
         IN IF primary_category \in DOMAIN category_mapping
            THEN category_mapping[primary_category]
            ELSE "Other"
    ELSE "Other"

\* The aggregator's ledger: every transaction id has fixed attributes.
\* 1 and 2 are two purchases alike in date, name and amount; 3 is a credit
\* (negative amount); 4 has amount zero.
PlaidAmount(k) == CASE k = 3 -> -1 [] k = 4 -> 0 [] OTHER -> 1

TaxonomyOf(k) ==
    CASE k = 1 -> Taxonomy(<<"Food and Drink", "Restaurants">>)
      [] k = 2 -> NoTaxonomy
      [] k = 3 -> Taxonomy(<<"Transfer", "Credit">>)
      [] OTHER -> Taxonomy(<<>>)

PlaidTxn(k) ==
    [transaction_id |-> PlaidId(k), amount |-> PlaidAmount(k), date |-> 1,
     name |-> "Store A", category |-> TaxonomyOf(k)]

\* one answer of client.transactions_get: a page of transactions with the
\* total count, or an exception
Response(transactions, total) ==
    [error |-> FALSE, transactions |-> transactions, total_transactions |-> total]

ErrorResponse == [error |-> TRUE, transactions |-> <<>>, total_transactions |-> 0]

\* the transactions the aggregator holds for an account: up to MaxResp, in the
\* order of its ledger (a transaction can come twice, from overlapping pages)
Ledgers ==
    {[i \in DOMAIN f |-> PlaidTxn(f[i])] :
        f \in SortedSeqs(Cardinality(PlaidIds), MaxResp)}

NumPages(ledger) ==
    IF ledger = <<>> THEN 1 ELSE (Len(ledger) + PageSize - 1) \div PageSize

\* the answers to the requests of one fetch: the ledger in pages of PageSize
\* transactions, with an exception in place of answer failAt (none when 0)
Paged(ledger, failAt) ==
    [k \in 1..(IF failAt = 0 THEN NumPages(ledger) ELSE failAt) |->
        IF k = failAt
        THEN ErrorResponse
        ELSE Response([i \in 1..(IF k * PageSize <= Len(ledger)
                                 THEN PageSize
                                 ELSE Len(ledger) - (k - 1) * PageSize) |->
                          ledger[(k - 1) * PageSize + i]],
                      Len(ledger))]

Replies ==
    UNION {{Paged(ledger, failAt) : failAt \in 0..NumPages(ledger)} :
              ledger \in Ledgers}

\* variant: an exception returns the pages retrieved before it
RECURSIVE FetchLoop_KeepPages(_, _, _, _)
FetchLoop_KeepPages(responses, k, transactions, total) ==
    IF Len(transactions) < total
    THEN IF responses[k].error
         THEN transactions
         ELSE FetchLoop_KeepPages(responses, k + 1,
                                  transactions \o responses[k].transactions,
                                  responses[k].total_transactions)
    ELSE transactions

fetch_transactions_KeepPages(responses) ==
    IF responses[1].error
    THEN <<>>
    ELSE FetchLoop_KeepPages(responses, 2, responses[1].transactions,
                             responses[1].total_transactions)

\* the while loop of fetch_transactions: responses[k] answers the request
\* made at offset len(transactions)
RECURSIVE FetchLoop(_, _, _, _)
FetchLoop(responses, k, transactions, total) ==
    IF Len(transactions) < total
    THEN IF responses[k].error
         THEN <<>>
         ELSE FetchLoop(responses, k + 1,
                        transactions \o responses[k].transactions,
                        responses[k].total_transactions)
    ELSE transactions

\* fetch_transactions on the answers its requests get
fetch_transactions(responses) ==
    IF responses[1].error
    THEN <<>>
    ELSE FetchLoop(responses, 2, responses[1].transactions,
                   responses[1].total_transactions)

\* the transactions of the answers received
Retrieved(responses) ==
    LET F[k \in 0..Len(responses)] ==
            IF k = 0 THEN <<>> ELSE F[k - 1] \o responses[k].transactions
    IN F[Len(responses)]

\* a request of the fetch raised
Failed(responses) == \E k \in 1..Len(responses) : responses[k].error

PlaidSource(institution_name) == "Plaid - " \o institution_name

\* variant: the stored ids are not consulted
Candidate_NoIdCheck(txn, existing_ids, institution_name) ==
    IF txn.amount > 0
    THEN <<Rec(txn.date, txn.name, Abs(txn.amount),
               categorize_transaction(txn.category),
               PlaidSource(institution_name), txn.transaction_id)>>
    ELSE <<>>

\* variant: an amount of zero counts as an expense
Candidate_NonNegative(txn, existing_ids, institution_name) ==
    IF txn.transaction_id \in existing_ids THEN <<>>
    ELSE IF txn.amount >= 0
         THEN <<Rec(txn.date, txn.name, Abs(txn.amount),
                    categorize_transaction(txn.category),
                    PlaidSource(institution_name), txn.transaction_id)>>
         ELSE <<>>

\* the candidate of one transaction: none when its id is stored already or
\* its amount is not positive
Candidate(txn, existing_ids, institution_name) ==
    IF txn.transaction_id \in existing_ids THEN <<>>
    ELSE IF txn.amount > 0
         THEN <<Rec(txn.date, txn.name, Abs(txn.amount),
                    categorize_transaction(txn.category),
                    PlaidSource(institution_name), txn.transaction_id)>>
         ELSE <<>>

\* the candidates of one account, in the order of its transactions
AccountCandidates(transactions, existing_ids, institution_name) ==
    LET F[i \in 0..Len(transactions)] ==
            IF i = 0 THEN <<>>
            ELSE F[i - 1] \o Candidate(transactions[i], existing_ids, institution_name)
    IN F[Len(transactions)]

sync_plaid_transactions(access_tokens, replies) ==
    LET existing_df == load_transactions
        existing_ids == Ids(existing_df)
        F[k \in 0..Len(access_tokens)] ==
            IF k = 0 THEN <<>>
            ELSE F[k - 1] \o AccountCandidates(fetch_transactions(replies[k]),
                                               existing_ids,
                                               access_tokens[k].institution_name)
    IN F[Len(access_tokens)]

\* the transactions the accounts' fetches returned
Reported(replies) ==
    UNION {Range(fetch_transactions(replies[k])) : k \in DOMAIN replies}

\* variant: the merged table is saved without duplicate elimination
SyncTable_NoDedup(df, candidates) == df \o candidates

\* the table the handler saves when there are candidates
SyncTable(df, candidates) == drop_duplicates(df \o candidates, IdSubset)

SyncAll ==
    /\ Unobserved
    /\ load_plaid_tokens # <<>>
    /\ \E replies \in [1..Len(load_plaid_tokens) -> Replies] :
         LET candidates == sync_plaid_transactions(load_plaid_tokens, replies)
             in == [op |-> "SyncAll", reported |-> Reported(replies),
                    candidates |-> candidates,
                    failed |-> {k \in DOMAIN replies : Failed(replies[k])},
                    retrieved |-> [k \in DOMAIN replies |-> Retrieved(replies[k])]]
         IN IF candidates # <<>>
            THEN /\ txFile' = SyncTable(load_transactions, candidates)
                 /\ Len(txFile') <= MaxStore
                 /\ Saved({"transactions"})
                 /\ Observe(in @@ [msg |-> "success"])
            ELSE /\ Observe(in @@ [msg |-> "info"])
                 /\ UNCHANGED <<txFile, unreadable>>
    /\ UNCHANGED <<catFile, budgetFile, tokenFile, now, fetch, sessions>>

----------------------------------------------------------------------------
(* Linked accounts *)

\* str.strip() on the names of the input domain
Strip(str) == IF str = " Chase " THEN "Chase" ELSE str

\* datetime.now().strftime('%Y-%m-%d')
Today(ts) == ts \div TicksPerDay

\* exchange_public_token: the access token, or "" (None) when the call fails;
\* the aggregator issues an access token once
ExchangeResults == AccessTokens \cup {""}

\* the access tokens of the linked accounts
Linked(tokens) == {tokens[i].access_token : i \in 1..Len(tokens)}

SaveConnection ==
    /\ Unobserved
    /\ \E public_token \in PublicTokens, institution_name \in InstitutionNames,
         access_token \in ExchangeResults \ Linked(tokenFile) :
         LET in == [op |-> "SaveConnection", public_token |-> public_token,
                    institution_name |-> institution_name]
         IN IF public_token = "" \/ institution_name = ""
            THEN /\ Observe(in @@ [msg |-> "error", access_token |-> ""])
                 /\ UNCHANGED <<tokenFile, unreadable>>
            ELSE IF access_token # ""
                 THEN /\ tokenFile' = Append(load_plaid_tokens,
                                         [access_token |-> access_token,
                                          institution_name |-> Strip(institution_name),
                                          connected_date |-> Today(now)])
                      /\ Saved({"plaid_tokens"})
                      /\ Observe(in @@ [msg |-> "success", access_token |-> access_token])
                 ELSE /\ Observe(in @@ [msg |-> "error", access_token |-> ""])
                      /\ UNCHANGED <<tokenFile, unreadable>>
    /\ UNCHANGED <<txFile, catFile, budgetFile, now, fetch, sessions>>

\* variant: the last record is removed
Pop_Last(s, i) == SubSeq(s, 1, Len(s) - 1)

\* list.pop(i)
Pop(s, i) == SubSeq(s, 1, i - 1) \o SubSeq(s, i + 1, Len(s))

RemoveAccount ==
    /\ Unobserved
    /\ \E i \in 1..Len(load_plaid_tokens) :
         /\ tokenFile' = Pop(load_plaid_tokens, i)
         /\ Saved({"plaid_tokens"})
         /\ Observe([op |-> "RemoveAccount", index |-> i, msg |-> "success"])
    /\ UNCHANGED <<txFile, catFile, budgetFile, now, fetch, sessions>>

----------------------------------------------------------------------------
(* Manage Budget page: categories *)

\* variant: an empty name is accepted
CategoryAccepted_Unlisted(new_category, categories) ==
    new_category \notin Range(categories)

\* variant: the name is not looked up in the list
CategoryAccepted_NonEmpty(new_category, categories) == new_category # ""

CategoryAccepted(new_category, categories) ==
    new_category # "" /\ new_category \notin Range(categories)

\* budgets[new_category] = 500
SetBudget(budgets, category, limit) ==
    [c \in DOMAIN budgets \cup {category} |->
        IF c = category THEN limit ELSE budgets[c]]

AddCategory ==
    /\ Unobserved
    /\ \E new_category \in NewCategoryNames :
         LET in == [op |-> "AddCategory", new_category |-> new_category]
         IN IF CategoryAccepted(new_category, load_categories)
            THEN /\ catFile' = Append(load_categories, new_category)
                 /\ budgetFile' = SetBudget(load_budgets, new_category, DefaultBudget)
                 /\ Saved({"categories", "budgets"})
                 /\ Observe(in @@ [msg |-> "success"])
            ELSE /\ Observe(in @@ [msg |-> "error"])
                 /\ UNCHANGED <<catFile, budgetFile, unreadable>>
    /\ UNCHANGED <<txFile, tokenFile, now, fetch, sessions>>

----------------------------------------------------------------------------
(* Dashboard page *)

\* get_month_data of the loaded table; the days of the model are days of the
\* current month
current_month_data == load_transactions

\* budgets.get(category, 0): the limit the category breakdown shows
DashboardBudget(budgets, category) ==
    IF category \in DOMAIN budgets THEN budgets[category] ELSE 0

----------------------------------------------------------------------------
(* Manage Budget page: limits *)

\* the limits typed into the fields of the form (number_input, min_value 0.0)
BudgetLimits == {0, 250}

\* value=float(budgets.get(category, 500)): the limit a field of the form shows
FormBudget(budgets, category) ==
    IF category \in DOMAIN budgets THEN budgets[category] ELSE DefaultBudget

\* the fields the user edits before saving: the first, the last, both or none
EditedFields(categories) == SUBSET {categories[1], categories[Len(categories)]}

\* variant: only the edited fields are saved
updated_budgets_EditedOnly(categories, budgets, edited, limit) ==
    [c \in edited |-> limit]

\* the dict the form builds: one entry for every category of the list
updated_budgets(categories, budgets, edited, limit) ==
    [c \in Range(categories) |->
        IF c \in edited THEN limit ELSE FormBudget(budgets, c)]

SaveBudget ==
    /\ Unobserved
    /\ \E edited \in EditedFields(load_categories), limit \in BudgetLimits :
         /\ budgetFile' = updated_budgets(load_categories, load_budgets, edited, limit)
         /\ Saved({"budgets"})
         /\ Observe([op |-> "SaveBudget", edited |-> edited, limit |-> limit,
                     msg |-> "success"])
    /\ UNCHANGED <<txFile, catFile, tokenFile, now, fetch, sessions>>

----------------------------------------------------------------------------
(* The program: ingestion, linked accounts and categories *)

\* init_files on a fresh directory
Init ==
    /\ txFile = <<>>
    /\ catFile = DEFAULT_CATEGORIES
    /\ budgetFile = default_budgets
    /\ tokenFile = <<>>
    /\ now = 0
    /\ last = Idle
    /\ unreadable = {}
    /\ fetch = NoFetch
    /\ sessions = NoSessions

Next ==
    \/ AddExpense
    \/ ImportCSV
    \/ SyncAll
    \/ SaveConnection
    \/ RemoveAccount
    \/ AddCategory

Spec == Init /\ [][Next]_vars

----------------------------------------------------------------------------
(* The Manage Budget page: limits and categories *)

NextBudget ==
    \/ SaveBudget
    \/ AddCategory

SpecBudget == Init /\ [][NextBudget]_vars

----------------------------------------------------------------------------
(* The program on files that can stop being readable: a file of a store is *)
(* deleted, truncated or overwritten with text that does not parse, between *)
(* two handler runs.  The loads then fall back to the defaults (lines       *)
(* 90-118) until a handler saves the store again.                           *)

DamageFile ==
    /\ Unobserved
    /\ \E store \in Stores \ unreadable : unreadable' = unreadable \cup {store}
    /\ UNCHANGED <<txFile, catFile, budgetFile, tokenFile, now, last, fetch, sessions>>

NextDamage ==
    \/ AddExpense
    \/ ImportCSV
    \/ AddCategory
    \/ DamageFile

SpecDamage == Init /\ [][NextDamage]_vars

----------------------------------------------------------------------------
(* The loads of a script run (lines 275-278), on files in any condition:   *)
(* each store holds its initial content or content written by the          *)
(* handlers, and any of the files can be unreadable.                       *)

\* the token list after two accounts were linked
TwoAccounts ==
    <<[access_token |-> "access-2", institution_name |-> "Chase",
       connected_date |-> 0],
      [access_token |-> "access-3", institution_name |-> "Amex",
       connected_date |-> 0]>>

InitLoad ==
    /\ txFile \in {<<>>,
                   <<Rec(1, "Store A", 1, "Pets", "Manual Entry", ManualId(0))>>}
    /\ catFile \in {DEFAULT_CATEGORIES, Append(DEFAULT_CATEGORIES, "Pets")}
    /\ budgetFile \in {default_budgets, SetBudget(default_budgets, "Pets", 0)}
    /\ tokenFile \in {<<>>, TwoAccounts}
    /\ now = 0
    /\ last = Idle
    /\ unreadable \in SUBSET Stores
    /\ fetch = NoFetch
    /\ sessions = NoSessions

\* transactions_df, budgets, categories and plaid_tokens of the script run;
\* the loads show no message
LoadData ==
    /\ Unobserved
    /\ last' = [op |-> "load", msg |-> "none",
                transactions_df |-> load_transactions,
                budgets |-> load_budgets,
                categories |-> load_categories,
                plaid_tokens |-> load_plaid_tokens]
    /\ UNCHANGED <<txFile, catFile, budgetFile, tokenFile, now, unreadable, fetch, sessions>>

NextLoad == LoadData

SpecLoad == InitLoad /\ [][NextLoad]_vars

----------------------------------------------------------------------------
(* Sync All Accounts with two linked accounts: the accounts were linked    *)
(* earlier, and the store is empty or holds a transaction of the first.    *)

InitLinked ==
    /\ txFile \in {<<>>,
                   <<Rec(1, "Store A", 1, "Dining Out", PlaidSource("Chase"),
                         PlaidId(1))>>}
    /\ catFile = DEFAULT_CATEGORIES
    /\ budgetFile = default_budgets
    /\ tokenFile = TwoAccounts
    /\ now = 0
    /\ last = Idle
    /\ unreadable = {}
    /\ fetch = NoFetch
    /\ sessions = NoSessions

NextSync == SyncAll

SpecSync == InitLinked /\ [][NextSync]_vars

----------------------------------------------------------------------------
(* The Sync Banks page's connections, with two linked accounts at the      *)
(* start, beside manual entries                                            *)

NextAccounts ==
    \/ SaveConnection
    \/ RemoveAccount
    \/ AddExpense

SpecAccounts == InitLinked /\ [][NextAccounts]_vars

----------------------------------------------------------------------------
(* Two browser sessions on the same files.  A script run is two steps: the *)
(* load of the table (line 275) and the Add Expense handler, which appends *)
(* to the table the run loaded and overwrites the file (lines 361-372).    *)
(* The runs of the two sessions are threads of one server: the steps of    *)
(* one can fall between the steps of the other.  `overlapped` tells that   *)
(* the run was in progress while a run of the other session was;           *)
(* `accepted` keeps the ids of the records the session's runs saved.       *)

SessionLoad(s) ==
    /\ sessions[s].pc = "idle"
    /\ now < MaxClock
    /\ sessions' =
          [t \in Sessions |->
              IF t = s
              THEN [sessions[s] EXCEPT
                       !.pc = "loaded",
                       !.transactions_df = load_transactions,
                       !.overlapped = \E u \in Sessions \ {s} :
                                          sessions[u].pc = "loaded"]
              ELSE IF sessions[t].pc = "loaded"
                   THEN [sessions[t] EXCEPT !.overlapped = TRUE]
                   ELSE sessions[t]]
    /\ UNCHANGED <<txFile, catFile, budgetFile, tokenFile, now, last, unreadable,
                   fetch>>

SessionAddExpense(s) ==
    /\ sessions[s].pc = "loaded"
    /\ now < MaxClock
    /\ \E d \in Days, desc \in Descriptions, amt \in ManualAmounts,
         cat \in ExpenseCategoryChoices(load_categories) :
         IF ExpenseAccepted(desc, amt)
         THEN /\ txFile' = AddExpenseTable(sessions[s].transactions_df,
                                           d, desc, amt, cat, now)
              /\ Len(txFile') <= MaxStore
              /\ Saved({"transactions"})
              /\ now' = now + 1
              /\ sessions' =
                    [sessions EXCEPT
                        ![s] = [pc |-> "idle", transactions_df |-> <<>>,
                                overlapped |-> FALSE,
                                accepted |-> sessions[s].accepted \cup
                                    {[id |-> ManualId(now),
                                      overlapped |-> sessions[s].overlapped]}]]
         ELSE /\ sessions' =
                    [sessions EXCEPT
                        ![s] = [pc |-> "idle", transactions_df |-> <<>>,
                                overlapped |-> FALSE,
                                accepted |-> sessions[s].accepted]]
              /\ UNCHANGED <<txFile, now, unreadable>>
    /\ UNCHANGED <<catFile, budgetFile, tokenFile, last, fetch>>

NextSessions ==
    \E s \in Sessions :
        \/ SessionLoad(s)
        \/ SessionAddExpense(s)

SpecSessions == Init /\ [][NextSessions]_vars

----------------------------------------------------------------------------
(* fetch_transactions step by step: one call of the function, an action    *)
(* per request.  The function runs in one thread and every request comes   *)
(* back with an answer or an exception, so a step that is possible is      *)
(* taken.                                                                   *)

\* the pages an answer can carry: up to PageSize transactions of the ledger,
\* none included
Pages ==
    {[i \in DOMAIN f |-> PlaidTxn(f[i])] :
        f \in SortedSeqs(Cardinality(PlaidIds), PageSize)}

\* the answers the aggregator can give to a request
Responses ==
    {ErrorResponse} \cup {Response(p, t) : p \in Pages, t \in 0..MaxResp}

\* the first request (lines 178-185)
FetchCall ==
    /\ fetch.pc = "call"
    /\ \E response \in Responses :
         fetch' = IF response.error
                  THEN [fetch EXCEPT !.pc = "done", !.raised = TRUE, !.result = <<>>]
                  ELSE [fetch EXCEPT !.pc = "loop",
                                     !.transactions = response.transactions,
                                     !.total = response.total_transactions]
    /\ UNCHANGED <<txFile, catFile, budgetFile, tokenFile, now, last, unreadable, sessions>>

\* one turn of the while loop (lines 188-198): a request at offset
\* len(transactions)
FetchPage ==
    /\ fetch.pc = "loop"
    /\ Len(fetch.transactions) < fetch.total
    /\ \E response \in Responses :
         IF response.error
         THEN fetch' = [fetch EXCEPT !.pc = "done", !.raised = TRUE,
                                     !.offset = Len(fetch.transactions),
                                     !.result = <<>>]
         ELSE /\ Len(fetch.transactions) + Len(response.transactions) <= MaxResp
              /\ fetch' = [fetch EXCEPT !.transactions = @ \o response.transactions,
                                        !.total = response.total_transactions,
                                        !.offset = Len(fetch.transactions)]
    /\ UNCHANGED <<txFile, catFile, budgetFile, tokenFile, now, last, unreadable, sessions>>

\* the loop condition is false: return transactions (line 200)
FetchReturn ==
    /\ fetch.pc = "loop"
    /\ Len(fetch.transactions) >= fetch.total
    /\ fetch' = [fetch EXCEPT !.pc = "done", !.result = fetch.transactions]
    /\ UNCHANGED <<txFile, catFile, budgetFile, tokenFile, now, last, unreadable, sessions>>

InitFetch ==
    /\ txFile = <<>>
    /\ catFile = DEFAULT_CATEGORIES
    /\ budgetFile = default_budgets
    /\ tokenFile = <<>>
    /\ now = 0
    /\ last = Idle
    /\ unreadable = {}
    /\ fetch = [NoFetch EXCEPT !.pc = "call"]
    /\ sessions = NoSessions

NextFetch ==
    \/ FetchCall
    \/ FetchPage
    \/ FetchReturn

SpecFetch == InitFetch /\ [][NextFetch]_vars /\ WF_vars(NextFetch)

----------------------------------------------------------------------------
(* categorize_transaction on its own: the taxonomy is drawn at the start   *)
(* and the function is applied to it once.                                 *)

TaxonomyNames ==
    DOMAIN category_mapping \cup {"Restaurants", "Bank Fees"}

TaxonomyInputs ==
    {NoTaxonomy} \cup {Taxonomy(l) : l \in SeqsUpTo(TaxonomyNames, MaxTaxonomy)}

InitCategorize ==
    /\ txFile = <<>>
    /\ catFile = DEFAULT_CATEGORIES
    /\ budgetFile = default_budgets
    /\ tokenFile = <<>>
    /\ now = 0
    /\ unreadable = {}
    /\ fetch = NoFetch
    /\ sessions = NoSessions
    /\ \E t \in TaxonomyInputs :
         last = [op |-> "categorize", plaid_category |-> t, called |-> FALSE,
                 result |-> ""]

Categorize ==
    /\ last.op = "categorize"
    /\ ~last.called
    /\ last' = [last EXCEPT !.called = TRUE,
                            !.result = categorize_transaction(last.plaid_category)]
    /\ UNCHANGED <<txFile, catFile, budgetFile, tokenFile, now, unreadable, fetch, sessions>>

NextCategorize == Categorize

SpecCategorize == InitCategorize /\ [][NextCategorize]_vars

----------------------------------------------------------------------------
(* Properties *)

HasId(df, id) == {i \in 1..Len(df) : df[i].transaction_id = id}

TripleOf(r) == <<r.date, r.description, r.amount>>

HasTriple(df, t) == {i \in 1..Len(df) : TripleOf(df[i]) = t}

RowTriple(row) == <<row.date.day, row.description, Abs(row.amount)>>

\* C1: in every reachable state of the Transaction Store no two stored
\* records have the same transaction_id.
C1_UniqueIds ==
    \A i, j \in 1..Len(txFile) :
        i # j => txFile[i].transaction_id # txFile[j].transaction_id

\* a sync whose candidates repeated an id has been merged into a store of
\* several records
C1_Witness ==
    /\ last.op = "SyncAll"
    /\ last.msg = "success"
    /\ Len(txFile) >= 2
    /\ \E i, j \in 1..Len(last.candidates) :
         i # j /\ last.candidates[i].transaction_id = last.candidates[j].transaction_id

\* C2: the store is append-only: every record stored before an ingestion
\* operation is still stored, unchanged, after it.
C2_AppendOnly ==
    [][\A i \in 1..Len(txFile) : \E j \in 1..Len(txFile') : txFile'[j] = txFile[i]]_vars

\* C3: an accepted manual entry (non-empty description, amount > 0) leaves
\* the store as it was plus exactly one new record at the end, with source
\* "Manual Entry", the submitted date, description, amount and category, and
\* a transaction_id that no stored record had.
C3_ManualEntryAppendsOne ==
    [][(last'.op = "AddExpense" /\ last'.description # "" /\ last'.amount > 0) =>
        /\ Len(txFile') = Len(txFile) + 1
        /\ SubSeq(txFile', 1, Len(txFile)) = txFile
        /\ LET r == txFile'[Len(txFile')]
           IN /\ r.source = "Manual Entry"
              /\ r.date = last'.date
              /\ r.description = last'.description
              /\ r.amount = last'.amount
              /\ r.category = last'.category
              /\ r.transaction_id \notin Ids(txFile)]_vars

\* an accepted manual entry was added to a store that held a manual entry
C3_Witness ==
    /\ last.op = "AddExpense"
    /\ last.msg = "success"
    /\ Len(txFile) >= 2
    /\ txFile[Len(txFile) - 1].source = "Manual Entry"

\* C4: a manual entry with an empty description or an amount that is not
\* positive shows an error, appends nothing and leaves the store unchanged.
C4_ManualEntryRejected ==
    [][(last'.op = "AddExpense" /\ (last'.description = "" \/ last'.amount <= 0)) =>
        /\ last'.msg = "error"
        /\ txFile' = txFile]_vars

\* a submission with an empty description was rejected on a store that holds
\* records
C4_Witness ==
    /\ last.op = "AddExpense"
    /\ last.msg = "error"
    /\ last.description = ""
    /\ last.amount > 0
    /\ txFile # <<>>

\* C5: a CSV import of N rows makes the store at most N records longer, and
\* for a row whose (date, description, |amount|) is the triple of a stored
\* record the store holds no more records of that triple than before.
C5_ImportBounded ==
    [][last'.op = "ImportCSV" =>
        /\ Len(txFile') <= Len(txFile) + Len(last'.rows)
        /\ \A i \in 1..Len(last'.rows) :
             HasTriple(txFile, RowTriple(last'.rows[i])) # {} =>
                Cardinality(HasTriple(txFile', RowTriple(last'.rows[i])))
                    <= Cardinality(HasTriple(txFile, RowTriple(last'.rows[i])))]_vars

\* an imported row had the triple of a record that another operation stored
C5_Witness ==
    /\ last.op = "ImportCSV"
    /\ last.msg = "success"
    /\ \E i \in 1..Len(last.rows), j \in 1..Len(txFile) :
         /\ TripleOf(txFile[j]) = RowTriple(last.rows[i])
         /\ txFile[j].transaction_id[2] # last.ts

\* C6: every record a CSV import adds comes from a row of the file: its
\* amount is the absolute value of the row's amount, its category the default
\* category of the batch, its source "CSV Import", its date and description
\* the row's; one row (day 1, "Store A", -1) with category "Groceries"
\* imported into the empty store gives exactly the record (day 1, "Store A",
\* 1, "Groceries", "CSV Import").
C6_ImportedRecords ==
    [][(last'.op = "ImportCSV" /\ last'.msg = "success") =>
        /\ \A j \in 1..Len(txFile') :
             txFile'[j].transaction_id \notin Ids(txFile) =>
                \E i \in 1..Len(last'.rows) :
                    /\ txFile'[j].transaction_id = <<"csv", last'.ts, i - 1>>
                    /\ txFile'[j].date = last'.rows[i].date.day
                    /\ txFile'[j].description = last'.rows[i].description
                    /\ txFile'[j].amount = Abs(last'.rows[i].amount)
                    /\ txFile'[j].category = last'.category
                    /\ txFile'[j].source = "CSV Import"
        /\ (/\ txFile = <<>>
            /\ Len(last'.rows) = 1
            /\ last'.rows[1].date.day = 1
            /\ last'.rows[1].description = "Store A"
            /\ last'.rows[1].amount = -1
            /\ last'.category = "Groceries") =>
                txFile' = <<Rec(1, "Store A", 1, "Groceries", "CSV Import",
                                <<"csv", last'.ts, 0>>)>>]_vars

\* a row with a negative amount was imported and its record is stored
C6_Witness ==
    /\ last.op = "ImportCSV"
    /\ last.msg = "success"
    /\ \E i \in 1..Len(last.rows) :
         /\ last.rows[i].amount < 0
         /\ HasId(txFile, <<"csv", last.ts, i - 1>>) # {}

\* C7: for a transaction the aggregator reports whose id is the id of a
\* stored record, sync produces no candidate, and after the sync the store
\* holds exactly one record with that id, the one it held before.
C7_SyncSkipsStoredIds ==
    [][last'.op = "SyncAll" =>
        \A t \in last'.reported :
            HasId(txFile, t.transaction_id) # {} =>
                /\ HasId(last'.candidates, t.transaction_id) = {}
                /\ Cardinality(HasId(txFile', t.transaction_id)) = 1
                /\ \A i \in HasId(txFile, t.transaction_id) :
                     \A j \in HasId(txFile', t.transaction_id) :
                        txFile'[j] = txFile[i]]_vars

\* a sync that added a record also reported a transaction stored before it
C7_Witness ==
    /\ last.op = "SyncAll"
    /\ last.msg = "success"
    /\ \E t \in last.reported :
         /\ HasId(txFile, t.transaction_id) # {}
         /\ HasId(last.candidates, t.transaction_id) = {}

\* C8: a sync adds no record for a reported transaction whose amount is zero
\* or negative, and it adds a record for every reported transaction whose
\* amount is positive and whose id was not stored.
C8_SyncKeepsPositiveOnly ==
    [][last'.op = "SyncAll" =>
        \A t \in last'.reported :
            /\ t.amount <= 0 => HasId(txFile', t.transaction_id) = {}
            /\ (t.amount > 0 /\ HasId(txFile, t.transaction_id) = {}) =>
                   \E j \in HasId(txFile', t.transaction_id) :
                       txFile'[j].amount = t.amount]_vars

\* a sync reported a transaction that is not an expense next to one it stored
C8_Witness ==
    /\ last.op = "SyncAll"
    /\ last.msg = "success"
    /\ \E t \in last.reported : t.amount <= 0
    /\ \E t \in last.reported :
         t.amount > 0 /\ HasId(last.candidates, t.transaction_id) # {}

\* C9: categorize_transaction returns "Other" for an absent or empty
\* taxonomy and for a first entry that is not in the table, and otherwise the
\* table's entry of the first entry alone: "Food and Drink" first gives
\* "Dining Out" whatever follows.
C9_CategorizeByFirstEntry ==
    (last.op = "categorize" /\ last.called) =>
        LET t == last.plaid_category
        IN /\ (t.absent \/ t.list = <<>>) => last.result = "Other"
           /\ (~t.absent /\ t.list # <<>> /\ t.list[1] \notin DOMAIN category_mapping)
                 => last.result = "Other"
           /\ (~t.absent /\ t.list # <<>> /\ t.list[1] \in DOMAIN category_mapping)
                 => last.result = category_mapping[t.list[1]]
           /\ (~t.absent /\ t.list # <<>> /\ t.list[1] = "Food and Drink")
                 => last.result = "Dining Out"

\* "Food and Drink" followed by another entry was mapped
C9_Witness ==
    /\ last.op = "categorize"
    /\ last.called
    /\ Len(last.plaid_category.list) = 2
    /\ last.plaid_category.list[1] = "Food and Drink"
    /\ last.plaid_category.list[2] = "Transfer"

\* C10: adding a category whose name is empty or already in the category
\* list shows an error and changes neither the category list nor the budget
\* mapping.
C10_AddCategoryRejected ==
    [][(last'.op = "AddCategory"
          /\ (last'.new_category = "" \/ last'.new_category \in Range(catFile))) =>
        /\ last'.msg = "error"
        /\ catFile' = catFile
        /\ budgetFile' = budgetFile]_vars

\* a category added earlier was submitted again and rejected
C10_Witness ==
    /\ last.op = "AddCategory"
    /\ last.msg = "error"
    /\ last.new_category = "Pets"
    /\ catFile[Len(catFile)] = "Pets"

\* C11: every record of the Transaction Store has a strictly positive
\* amount, in every state reachable by manual entries, CSV imports (rows of
\* any sign, zero included) and aggregator syncs.
C11_PositiveAmounts ==
    \A i \in 1..Len(txFile) : txFile[i].amount > 0

\* C12: every record of the Transaction Store has a category that is in the
\* current category list or is "Other", in every state reachable by
\* ingestion operations and category additions, a load of the categories
\* that falls back to the default list included.
C12_KnownCategories ==
    \A i \in 1..Len(load_transactions) :
        load_transactions[i].category \in Range(load_categories) \cup {"Other"}

\* C13: the category list never holds a name twice and never holds the
\* empty name, and a successful add-category appends the new name at the
\* end, leaving the earlier names in their order.
C13_CategoryList ==
    /\ [](/\ \A i, j \in 1..Len(catFile) : i # j => catFile[i] # catFile[j]
          /\ \A i \in 1..Len(catFile) : catFile[i] # "")
    /\ [][(last'.op = "AddCategory" /\ last'.msg = "success") =>
            /\ Len(catFile') = Len(catFile) + 1
            /\ SubSeq(catFile', 1, Len(catFile)) = catFile
            /\ catFile'[Len(catFile')] = last'.new_category]_vars

\* a new name was added after the default categories
C13_Witness ==
    /\ last.op = "AddCategory"
    /\ last.msg = "success"
    /\ last.new_category = "Pets"
    /\ Len(catFile) = Len(DEFAULT_CATEGORIES) + 1
    /\ catFile[Len(catFile)] = "Pets"

\* C14: after any sequence of add-category and save-budget operations from
\* the initialized files, every category of the list has an entry in the
\* saved budget mapping and every limit is non-negative; a successful
\* add-category gives the new category the limit 500 and leaves every other
\* limit as it was.
C14_BudgetEntries ==
    /\ [](/\ \A c \in Range(catFile) : c \in DOMAIN budgetFile
          /\ \A c \in DOMAIN budgetFile : budgetFile[c] >= 0)
    /\ [][(last'.op = "AddCategory" /\ last'.msg = "success") =>
            /\ DOMAIN budgetFile' = DOMAIN budgetFile \cup {last'.new_category}
            /\ budgetFile'[last'.new_category] = 500
            /\ \A c \in DOMAIN budgetFile : budgetFile'[c] = budgetFile[c]]_vars

\* a category was added after the limits of the first and the last category
\* had been changed
C14_Witness ==
    /\ last.op = "AddCategory"
    /\ last.msg = "success"
    /\ last.new_category = "Pets"
    /\ budgetFile["Groceries"] = 250
    /\ budgetFile["Other"] = 0
    /\ budgetFile["Pets"] = 500

\* C15: when a category has no entry in the budget mapping, the category
\* breakdown of the dashboard (rendered when the month has records) and the
\* budget form show the same default limit for it.
C15_SameDefault ==
    \A c \in Range(load_categories) :
        (c \notin DOMAIN load_budgets /\ current_month_data # <<>>) =>
            DashboardBudget(load_budgets, c) = FormBudget(load_budgets, c)

\* C16: right after every CSV import no two stored records, however they
\* were stored, have the same (date, description, amount), and of the
\* records of one triple the earliest in store order is the one kept: the
\* first stored record of a triple stays, and a triple that was not stored
\* is kept from the first row of the file that has it.
C16_ImportDedup ==
    [][(last'.op = "ImportCSV" /\ last'.msg = "success") =>
        /\ \A i, j \in 1..Len(txFile') :
             i # j => TripleOf(txFile'[i]) # TripleOf(txFile'[j])
        /\ \A i \in 1..Len(txFile) :
             (\A k \in 1..(i - 1) : TripleOf(txFile[k]) # TripleOf(txFile[i])) =>
                 \E j \in 1..Len(txFile') : txFile'[j] = txFile[i]
        /\ \A i \in 1..Len(last'.rows) :
             (/\ HasTriple(txFile, RowTriple(last'.rows[i])) = {}
              /\ \A k \in 1..(i - 1) :
                   RowTriple(last'.rows[k]) # RowTriple(last'.rows[i])) =>
                 HasId(txFile', <<"csv", last'.ts, i - 1>>) # {}]_vars

\* a file of two rows of one triple was imported into a store that held a
\* record of that triple from another source, and that record is the one kept
C16_Witness ==
    /\ last.op = "ImportCSV"
    /\ last.msg = "success"
    /\ Len(last.rows) = 2
    /\ RowTriple(last.rows[1]) = RowTriple(last.rows[2])
    /\ Len(txFile) = 1
    /\ TripleOf(txFile[1]) = RowTriple(last.rows[1])
    /\ txFile[1].source # "CSV Import"

\* C17: fetch_transactions always terminates: whatever the aggregator
\* answers, the call returns (with the transactions of the reported total, or
\* after an error); it does not request pages forever.
C17_FetchTerminates == <>(fetch.pc = "done")

\* C18: when a request of the fetch for a linked account raises, the fetch
\* gives no transaction for that account, the pages it had retrieved
\* included: no candidate and no new record has that account as its source;
\* the sync goes on with the other accounts: every expense they retrieved
\* whose id was not stored is stored after the sync.
C18_FailedFetch ==
    [][last'.op = "SyncAll" =>
        /\ \A k \in last'.failed :
             LET source == PlaidSource(tokenFile[k].institution_name)
             IN /\ \A i \in 1..Len(last'.candidates) :
                     last'.candidates[i].source # source
                /\ \A j \in 1..Len(txFile') :
                     txFile'[j].source = source =>
                         \E i \in 1..Len(txFile) : txFile[i] = txFile'[j]
        /\ \A k \in DOMAIN last'.retrieved \ last'.failed :
             \A i \in 1..Len(last'.retrieved[k]) :
                 LET t == last'.retrieved[k][i]
                 IN (t.amount > 0 /\ HasId(txFile, t.transaction_id) = {}) =>
                        HasId(txFile', t.transaction_id) # {}]_vars

\* the fetch of the first account raised after a page with a new expense,
\* and the sync stored a record of the second account only
C18_Witness ==
    /\ last.op = "SyncAll"
    /\ last.msg = "success"
    /\ last.failed = {1}
    /\ \E i \in 1..Len(last.retrieved[1]) :
         /\ last.retrieved[1][i].amount > 0
         /\ HasId(txFile, last.retrieved[1][i].transaction_id) = {}
    /\ \A j \in 1..Len(txFile) : txFile[j].source = PlaidSource("Amex")
    /\ txFile # <<>>

\* C19: a read of a persisted store that fails gives the store's default and
\* no error: load_transactions the empty table, load_budgets a limit of 500
\* for each default category, load_categories the default category list,
\* load_plaid_tokens an empty token list.
C19_LoadDefaults ==
    last.op = "load" =>
        /\ last.msg = "none"
        /\ "transactions" \in unreadable => last.transactions_df = <<>>
        /\ "budgets" \in unreadable =>
              last.budgets = [c \in Range(DEFAULT_CATEGORIES) |-> 500]
        /\ "categories" \in unreadable => last.categories = DEFAULT_CATEGORIES
        /\ "plaid_tokens" \in unreadable => last.plaid_tokens = <<>>

\* the four stores were loaded while none of the files could be read and
\* each of them had held something else than the default
C19_Witness ==
    /\ last.op = "load"
    /\ unreadable = Stores
    /\ txFile # <<>>
    /\ catFile # DEFAULT_CATEGORIES
    /\ budgetFile # default_budgets
    /\ tokenFile # <<>>

\* C20: a token record is added to the token list only when the exchange of
\* the public token succeeds: a Save Connection with an empty field or a
\* failed exchange leaves the list as it was, a successful one appends one
\* record with the access token; a record is removed only by the remove
\* action, which deletes the selected record, keeps the others in their
\* order and leaves the Transaction Store as it was.
C20_TokenLifecycle ==
    [][/\ last'.op = "SaveConnection" =>
            IF /\ last'.public_token # ""
               /\ last'.institution_name # ""
               /\ last'.access_token # ""
            THEN /\ Len(tokenFile') = Len(tokenFile) + 1
                 /\ SubSeq(tokenFile', 1, Len(tokenFile)) = tokenFile
                 /\ tokenFile'[Len(tokenFile')].access_token = last'.access_token
            ELSE tokenFile' = tokenFile
       /\ last'.op = "RemoveAccount" =>
            /\ Len(tokenFile') = Len(tokenFile) - 1
            /\ \A i \in 1..Len(tokenFile') :
                 tokenFile'[i] = IF i < last'.index THEN tokenFile[i]
                                                   ELSE tokenFile[i + 1]
            /\ txFile' = txFile
       /\ last'.op \notin {"SaveConnection", "RemoveAccount", "none"} =>
            tokenFile' = tokenFile
       /\ Len(tokenFile') < Len(tokenFile) =>
            \E i \in 1..Len(tokenFile) : tokenFile' = Pop(tokenFile, i)
       /\ Len(tokenFile') > Len(tokenFile) =>
            /\ SubSeq(tokenFile', 1, Len(tokenFile)) = tokenFile
            /\ tokenFile'[Len(tokenFile')].access_token # ""]_vars

\* the second of three records was removed: a record linked at the start
\* and the record a Save Connection added stay, in their order, beside a
\* stored transaction
C20_Witness ==
    /\ last.op = "RemoveAccount"
    /\ last.index = 2
    /\ Len(tokenFile) = 2
    /\ tokenFile[1].access_token = "access-2"
    /\ tokenFile[2].access_token = "access-1"
    /\ txFile # <<>>

\* C21: the load / modify / overwrite cycle on the Transaction Store is not
\* atomic.  A record that a writer's cycle accepted and saved is absent from
\* the saved store only when that cycle overlapped a cycle of the other
\* writer (both loaded before either saved); a record of a cycle that
\* overlapped none is in the saved store after its operation.
C21_LostUpdateNeedsInterleaving ==
    \A s \in Sessions :
        \A a \in sessions[s].accepted :
            HasId(txFile, a.id) = {} => a.overlapped

\* a lost update: both sessions saved an accepted record in cycles that
\* overlapped, and the store holds the record of the second session only
C21_Witness ==
    /\ sessions[1].pc = "idle"
    /\ sessions[2].pc = "idle"
    /\ \E a \in sessions[1].accepted :
         /\ a.overlapped
         /\ HasId(txFile, a.id) = {}
    /\ \E a \in sessions[2].accepted : HasId(txFile, a.id) # {}
    /\ Len(txFile) = 1

\* C22: the candidates a sync produces have pairwise different
\* transaction_ids, also when two linked accounts or overlapping pages
\* report the same transaction, so the number of candidates (the count shown
\* as synced) is the number of records the sync adds to the store.
C22_CandidatesDistinct ==
    [][last'.op = "SyncAll" =>
        /\ \A i, j \in 1..Len(last'.candidates) :
             i # j => last'.candidates[i].transaction_id
                          # last'.candidates[j].transaction_id
        /\ Len(last'.candidates) = Len(txFile') - Len(txFile)]_vars

====
